---------------------------- MODULE Spec2Model ----------------------------
(***************************************************************************)
(* A model of the consul_kv_cache package: mirror instances (ConsulKVCache)*)
(* that share one prefix of a remote key/value store, the long-poll loop   *)
(* BackgroundUpdate, the full resync Repopulate and the write path         *)
(* Set / Delete.  Strings are sequences of tokens, so that prefixing a     *)
(* key, cutting the prefix off and taking a key's base name are computed.  *)
(***************************************************************************)
EXTENDS Integers, Sequences, FiniteSets, TLC

(* ------------------------------ bounds -------------------------------- *)

\* The remote store accepts writes until its index reaches MaxIndex.
MaxIndex == 4

\* The number of remote calls that may fail in one behaviour.
MaxFail == 1

(* ------------------------------ strings ------------------------------- *)

Sep == "/"

\* NewCustomConsulKVCache("foo", client): prefix + "/"
prefix == <<"foo", Sep>>

plen == Len(prefix)

SyncName == <<"__sync">>

\* The keys callers use, relative to the prefix.
RelKeys == {<<"bar">>, <<"c", Sep, "baz">>}

\* Every key the remote store holds under the prefix.
AbsKeys == {prefix \o k : k \in RelKeys \cup {SyncName}}

\* The values the callers of an instance write: opaque bytes, which the code
\* never inspects.  Each instance writes values of its own, so that a value
\* tells which instance wrote it.  Delete writes "1" to the sentinel.
ValsOf(i) == IF i = "A" THEN {"x", "y"} ELSE {"z"}

SyncVal == "1"

\* The mirror instances; all are bound to the same prefix.
Inst == {"A", "B"}

\* The instances whose BackgroundUpdate goroutine has been started.
Watchers == {"A"}

\* The goroutines of an instance that may run Repopulate.
Threads == {"bg", "caller"}

\* strings.HasPrefix(s, p)
HasPrefix(s, p) == Len(p) <= Len(s) /\ SubSeq(s, 1, Len(p)) = p

\* s[n:]
Cut(s, n) == SubSeq(s, n + 1, Len(s))

\* The position of the last separator of s, 0 when there is none.
LastSep(s) ==
    LET at == {n \in 1..Len(s) : s[n] = Sep}
    IN  IF at = {} THEN 0 ELSE CHOOSE n \in at : \A m \in at : m <= n

\* _, base := filepath.Split(s)
Base(s) == Cut(s, LastSep(s))

(* ---------------------------- remote store ---------------------------- *)

NoEntry == [Value |-> "", ModifyIndex |-> 0]

VARIABLES
    store,   \* remote: absolute key -> KVPair (NoEntry when the key is absent)
    ridx,    \* remote: the index of the last accepted write
    fails    \* the number of remote calls that have failed

\* The KVPairs under the prefix modified after index since.
Pairs(since) ==
    LET ks == {k \in AbsKeys : store[k] # NoEntry /\ store[k].ModifyIndex > since}
    IN  [k \in ks |-> store[k]]

NoPairs == [k \in {} |-> NoEntry]

NoResp == [err |-> FALSE, values |-> NoPairs, LastIndex |-> 0]

ErrResp == [err |-> TRUE, values |-> NoPairs, LastIndex |-> 0]

\* consul.List(prefix, nil): every pair under the prefix, and the index.
ListResp == [err |-> FALSE, values |-> Pairs(0), LastIndex |-> ridx]

\* consul.List(prefix, &opts) with opts.WaitIndex = since: returns on a change
\* after since or when WaitTime has elapsed, with the pairs changed after since.
WatchResp(since) == [err |-> FALSE, values |-> Pairs(since), LastIndex |-> ridx]

\* The store after an accepted consul.Put of (k, v).
PutStore(s, k, v, idx) == [s EXCEPT ![k] = [Value |-> v, ModifyIndex |-> idx + 1]]

\* The store after an accepted consul.Delete of k.
DeleteStore(s, k) == [s EXCEPT ![k] = NoEntry]

(* ------------------------------ mirror -------------------------------- *)

VARIABLES
    cache,   \* c.cache: absolute key -> Value, per instance
    clock,   \* c.clock
    exit,    \* c.exit
    lock,    \* c.lock: "free", or "held" by a Delete that is in flight
    pc,      \* where the BackgroundUpdate goroutine is
    opts,    \* opts.WaitIndex of BackgroundUpdate
    resp,    \* values, meta, err of BackgroundUpdate's last List
    cpc,     \* where the caller's goroutine is
    lst,     \* values, meta of a Repopulate in flight, per goroutine
    del,     \* the caller's Delete in flight: its key, whether the entry was in
             \* the table, and the error of delConsulKV that the code drops
    gone,    \* history: key -> the instance whose Delete of it has returned nil
             \* with no Set of the key begun since ("none" otherwise)
    ret      \* whether the caller's last call returned an error

vars == <<store, ridx, fails, cache, clock, exit, lock, pc, opts, resp, cpc, lst, del, gone, ret>>

remote == <<store, ridx>>

NoDel == [key |-> <<>>, had |-> FALSE, err |-> FALSE]

\* The caller's call returns err (TRUE: an error, FALSE: nil).
Return(i, err) == [ret EXCEPT ![i] = err]

Init ==
    /\ store = [k \in AbsKeys |-> NoEntry]
    /\ ridx = 0
    /\ fails = 0
    /\ cache = [i \in Inst |-> NoPairs]
    /\ clock = [i \in Inst |-> 0]
    /\ exit = [i \in Inst |-> FALSE]
    /\ lock = [i \in Inst |-> "free"]
    /\ pc = [i \in Inst |-> IF i \in Watchers THEN "watch" ELSE "off"]
    /\ opts = [i \in Inst |-> 0]
    /\ resp = [i \in Inst |-> NoResp]
    /\ cpc = [i \in Inst |-> "idle"]
    /\ lst = [i \in Inst |-> [t \in Threads |-> NoResp]]
    /\ del = [i \in Inst |-> NoDel]
    /\ gone = [k \in RelKeys |-> "none"]
    /\ ret = [i \in Inst |-> FALSE]

(* ------------------------------ readers ------------------------------- *)

\* Clock()
Clock(i) == clock[i]

\* Size()
Size(i) == Cardinality(DOMAIN cache[i])

\* Get(key): found
Found(i, key) == (prefix \o key) \in DOMAIN cache[i]

\* Get(key): the entry, when found
Get(i, key) == cache[i][prefix \o key]

\* The prefixes callers pass to GetPrefix.
Prefixes == {<<>>, <<"c">>, <<"bar">>, <<"baz">>, <<"c", Sep, "baz">>, SyncName}

\* MaxClock with the version of the entry taken whatever max is.
MaxClock_Last(max, v) == v.Clock

\* if v.Clock > max { max = v.Clock }
MaxClock(max, v) == IF v.Clock > max THEN v.Clock ELSE max

\* for k, v := range c.cache, over the keys ks not yet visited, in any order:
\* an entry whose key has the prefix xp is appended and raises max.
RECURSIVE GetPrefixRange(_, _, _, _)
GetPrefixRange(tbl, ks, xp, acc) ==
    IF ks = {} THEN acc
    ELSE LET k == CHOOSE x \in ks : TRUE
         IN  GetPrefixRange(tbl, ks \ {k}, xp,
                 IF HasPrefix(k, xp)
                 THEN [values |-> Append(acc.values, tbl[k]),
                       max |-> MaxClock(acc.max, tbl[k])]
                 ELSE acc)

\* GetPrefix(p): values, max
GetPrefix(i, p) ==
    GetPrefixRange(cache[i], DOMAIN cache[i], prefix \o p, [values |-> <<>>, max |-> 0])

(* --------------------------- remote calls ----------------------------- *)

\* A remote call that fails: a transport or decode error, nothing is written.
Failed == fails < MaxFail /\ fails' = fails + 1

\* setConsulKV(key, value): consul.Put; ok tells whether the store accepted it.
setConsulKV(key, value, ok) ==
    IF ok
    THEN /\ ridx < MaxIndex
         /\ store' = PutStore(store, key, value, ridx)
         /\ ridx' = ridx + 1
         /\ UNCHANGED fails
    ELSE Failed /\ UNCHANGED remote

\* delConsulKV(key, false): consul.Delete of the one key.
delConsulKV(key, ok) ==
    IF ok
    THEN /\ ridx < MaxIndex
         /\ store' = DeleteStore(store, key)
         /\ ridx' = ridx + 1
         /\ UNCHANGED fails
    ELSE Failed /\ UNCHANGED remote

\* The writes the store still accepts, less the sentinel puts of the Deletes
\* in flight: a Delete that has begun can always reach its return.
Room == MaxIndex - ridx - Cardinality({i \in Inst : cpc[i] = "delete"})

(* ----------------------------- write path ----------------------------- *)

\* SetTable with the entry stored under key, not under xkey.
SetTable_RelativeKey(tbl, key, val, clk) ==
    [k \in DOMAIN tbl \cup {key} |->
        IF k = key THEN [Key |-> key, Value |-> val, Clock |-> clk] ELSE tbl[k]]

\* c.cache[xkey] = &Value{key, val, c.clock}
SetTable(tbl, key, val, clk) ==
    LET xkey == prefix \o key
    IN  [k \in DOMAIN tbl \cup {xkey} |->
            IF k = xkey THEN [Key |-> key, Value |-> val, Clock |-> clk] ELSE tbl[k]]

\* Set(key, val).  The lock is held from before the table is written until
\* the put has returned, so the call is one step for every other goroutine.
Set(i, key, val) ==
    /\ cpc[i] = "idle"
    /\ lock[i] = "free"
    /\ Room >= 1
    /\ \E ok \in BOOLEAN :
          /\ setConsulKV(prefix \o key, val, ok)
          /\ ret' = Return(i, ~ok)
    /\ cache' = [cache EXCEPT ![i] = SetTable(cache[i], key, val, clock[i])]
    /\ gone' = [gone EXCEPT ![key] = "none"]
    /\ UNCHANGED <<clock, exit, lock, pc, opts, resp, cpc, lst, del>>

\* delete(c.cache, key)
DeleteTable(tbl, xkey) == [k \in DOMAIN tbl \ {xkey} |-> tbl[k]]

\* Delete(key), to the return of delConsulKV: the lock is taken, the entry
\* removed and the key deleted remotely; the error of the delete is dropped.
DeleteBegin(i, key) ==
    /\ cpc[i] = "idle"
    /\ lock[i] = "free"
    /\ Room >= 2
    /\ lock' = [lock EXCEPT ![i] = "held"]
    /\ cache' = [cache EXCEPT ![i] = DeleteTable(cache[i], prefix \o key)]
    /\ \E ok \in BOOLEAN :
          /\ delConsulKV(prefix \o key, ok)
          /\ del' = [del EXCEPT ![i] = [key |-> key, had |-> Found(i, key),
                                        err |-> ~ok]]
    /\ cpc' = [cpc EXCEPT ![i] = "delete"]
    /\ UNCHANGED <<clock, exit, pc, opts, resp, lst, gone, ret>>

\* The error Delete returns: that of the put of the sentinel.
DeleteErr(delerr, puterr) == puterr

\* Delete(key), from the put of the sentinel to the return.
DeleteEnd(i) ==
    /\ cpc[i] = "delete"
    /\ \E ok \in BOOLEAN :
          /\ setConsulKV(prefix \o SyncName, SyncVal, ok)
          /\ ret' = Return(i, DeleteErr(del[i].err, ~ok))
    /\ gone' = IF ret'[i] THEN gone ELSE [gone EXCEPT ![del[i].key] = i]
    /\ del' = [del EXCEPT ![i] = NoDel]
    /\ lock' = [lock EXCEPT ![i] = "free"]
    /\ cpc' = [cpc EXCEPT ![i] = "idle"]
    /\ UNCHANGED <<cache, clock, exit, pc, opts, resp, lst>>

\* Close()
Close(i) ==
    /\ ~exit[i]
    /\ exit' = [exit EXCEPT ![i] = TRUE]
    /\ UNCHANGED <<remote, fails, cache, clock, lock, pc, opts, resp, cpc, lst, del, gone, ret>>

(* ----------------------------- Repopulate ----------------------------- *)

\* Where goroutine t of instance i is.
At(i, t) == IF t = "bg" THEN pc[i] ELSE cpc[i]

\* Goroutine t of instance i moves to p.
Goto(i, t, p) ==
    IF t = "bg"
    THEN pc' = [pc EXCEPT ![i] = p] /\ UNCHANGED cpc
    ELSE cpc' = [cpc EXCEPT ![i] = p] /\ UNCHANGED pc

\* RepopulateReturn with nil returned to the caller whatever happened.
RepopulateReturn_Nil(i, t, err) ==
    IF t = "bg"
    THEN Goto(i, t, "watch") /\ resp' = [resp EXCEPT ![i] = NoResp] /\ UNCHANGED ret
    ELSE Goto(i, t, "idle") /\ ret' = Return(i, FALSE) /\ UNCHANGED resp

\* Repopulate returns err to goroutine t: the loop drops it, the caller sees it.
RepopulateReturn(i, t, err) ==
    IF t = "bg"
    THEN Goto(i, t, "watch") /\ resp' = [resp EXCEPT ![i] = NoResp] /\ UNCHANGED ret
    ELSE Goto(i, t, "idle") /\ ret' = Return(i, err) /\ UNCHANGED resp

\* Repopulate(), to the return of List: a failed listing returns the error at
\* once.
RepopulateList(i, t) ==
    /\ At(i, t) = IF t = "bg" THEN "repopulate" ELSE "idle"
    /\ \/ /\ Failed
          /\ RepopulateReturn(i, t, TRUE)
          /\ UNCHANGED lst
       \/ /\ lst' = [lst EXCEPT ![i][t] = ListResp]
          /\ Goto(i, t, "apply")
          /\ UNCHANGED <<fails, resp, ret>>
    /\ UNCHANGED <<remote, cache, clock, exit, lock, opts, del, gone>>

\* c.clock = ClockValue(meta.LastIndex)
RepopulateClock(clk, meta) == meta.LastIndex

\* RepopulateTable with every entry stamped with the index of the listing.
RepopulateTable_LastIndex(tbl, r) ==
    [k \in DOMAIN r.values |->
        [Key |-> k, Value |-> r.values[k].Value, Clock |-> r.LastIndex]]

\* tbl[val.Key] = &Value{val.Key, val.Value, ClockValue(val.ModifyIndex)}
RepopulateTable(tbl, r) ==
    [k \in DOMAIN r.values |->
        [Key |-> k, Value |-> r.values[k].Value, Clock |-> r.values[k].ModifyIndex]]

\* Repopulate(), from the return of List to its own: on an empty listing it
\* returns nil before the lock is taken, otherwise the table and the clock are
\* replaced, under the lock, from the listing fetched before.
RepopulateApply(i, t) ==
    /\ At(i, t) = "apply"
    /\ \/ /\ lst[i][t].values = NoPairs
          /\ UNCHANGED <<cache, clock>>
       \/ /\ lst[i][t].values # NoPairs
          /\ lock[i] = "free"
          /\ clock' = [clock EXCEPT ![i] = RepopulateClock(clock[i], lst[i][t])]
          /\ cache' = [cache EXCEPT ![i] = RepopulateTable(cache[i], lst[i][t])]
    /\ lst' = [lst EXCEPT ![i][t] = NoResp]
    /\ RepopulateReturn(i, t, FALSE)
    /\ UNCHANGED <<remote, fails, exit, lock, opts, del, gone>>

(* -------------------------- BackgroundUpdate -------------------------- *)

\* Whether a key of the response has the base name __sync.
FullSync(values) == \E k \in DOMAIN values : Base(k) = SyncName

\* Dispatch with the List issued again at once after an error.
Dispatch_NoBackoff(ex, r) ==
    IF ex THEN "done"
    ELSE IF r.err \/ r.values = NoPairs THEN "watch"
    ELSE IF FullSync(r.values) THEN "repopulate"
    ELSE "merge"

\* Dispatch without the check for the sentinel.
Dispatch_NoFullSync(ex, r) ==
    IF ex THEN "done"
    ELSE IF r.err THEN "sleep"
    ELSE IF r.values = NoPairs THEN "watch"
    ELSE "merge"

\* Where the loop goes with the response r of its List: the checks of
\* c.exit, err, len(values) and fullSync, in the order of the code.
Dispatch(ex, r) ==
    IF ex THEN "done"
    ELSE IF r.err THEN "sleep"
    ELSE IF r.values = NoPairs THEN "watch"
    ELSE IF FullSync(r.values) THEN "repopulate"
    ELSE "merge"

\* NextIndex with the index of the response adopted only when it has pairs,
\* and the watch started from the beginning otherwise.
NextIndex_ResetOnEmpty(ex, r, idx) ==
    IF ex \/ r.err THEN idx ELSE IF r.values = NoPairs THEN 0 ELSE r.LastIndex

\* opts.WaitIndex = meta.LastIndex, once c.exit and err have been checked.
NextIndex(ex, r, idx) == IF ex \/ r.err THEN idx ELSE r.LastIndex

\* The values the loop may read from c.exit.  Close writes the field and the
\* loop reads it with no lock and no other synchronisation between them, so
\* once Close has run the read yields the value of either side of the write.
ExitRead(i) == IF exit[i] THEN BOOLEAN ELSE {FALSE}

\* One turn of the loop, from the return of c.consul.List(c.prefix, &opts) to
\* the next remote call or to Lock: all of it is local to the goroutine.  The
\* response is kept while the turn uses it.
BgWatch(i) ==
    /\ pc[i] = "watch"
    /\ \E ok \in BOOLEAN, ex \in ExitRead(i) :
         LET r == IF ok THEN WatchResp(opts[i]) ELSE ErrResp
         IN  /\ IF ok THEN UNCHANGED fails ELSE Failed
             /\ pc' = [pc EXCEPT ![i] = Dispatch(ex, r)]
             /\ opts' = [opts EXCEPT ![i] = NextIndex(ex, r, opts[i])]
             /\ resp' = [resp EXCEPT ![i] =
                            IF pc'[i] \in {"merge", "repopulate"} THEN r ELSE NoResp]
    /\ UNCHANGED <<remote, cache, clock, exit, lock, cpc, lst, del, gone, ret>>

\* time.Sleep(1 * time.Second); continue
BgSleep(i) ==
    /\ pc[i] = "sleep"
    /\ pc' = [pc EXCEPT ![i] = "watch"]
    /\ UNCHANGED <<remote, fails, cache, clock, exit, lock, opts, resp, cpc, lst, del, gone, ret>>

\* c.clock = ClockValue(meta.LastIndex)
MergeClock(clk, meta) == meta.LastIndex

\* MergeTable with the table made of the pairs of the response alone.
MergeTable_Replace(tbl, values) ==
    [k \in DOMAIN values |->
        [Key |-> Cut(k, plen), Value |-> values[k].Value,
         Clock |-> values[k].ModifyIndex]]

\* c.cache[val.Key] = &Value{val.Key[plen:], val.Value, ClockValue(val.ModifyIndex)}
MergeTable(tbl, values) ==
    [k \in DOMAIN tbl \cup DOMAIN values |->
        IF k \in DOMAIN values
        THEN [Key |-> Cut(k, plen), Value |-> values[k].Value,
              Clock |-> values[k].ModifyIndex]
        ELSE tbl[k]]

\* The incremental merge, from Lock to Unlock.
BgMerge(i) ==
    /\ pc[i] = "merge"
    /\ lock[i] = "free"
    /\ clock' = [clock EXCEPT ![i] = MergeClock(clock[i], resp[i])]
    /\ cache' = [cache EXCEPT ![i] = MergeTable(cache[i], resp[i].values)]
    /\ resp' = [resp EXCEPT ![i] = NoResp]
    /\ pc' = [pc EXCEPT ![i] = "watch"]
    /\ UNCHANGED <<remote, fails, exit, lock, opts, cpc, lst, del, gone, ret>>

(* --------------------------- specification ---------------------------- *)

Next ==
    \/ \E i \in Inst, key \in RelKeys : \E val \in ValsOf(i) : Set(i, key, val)
    \/ \E i \in Inst, key \in RelKeys : DeleteBegin(i, key)
    \/ \E i \in Inst : DeleteEnd(i)
    \/ \E i \in Watchers, t \in Threads : RepopulateList(i, t)
    \/ \E i \in Watchers, t \in Threads : RepopulateApply(i, t)
    \/ \E i \in Inst : BgWatch(i)
    \/ \E i \in Inst : BgSleep(i)
    \/ \E i \in Inst : BgMerge(i)

\* The callers never call Close: the loops run for ever.
Spec == Init /\ [][Next]_vars

\* The callers may also call Close.
NextClose == Next \/ \E i \in Watchers : Close(i)

SpecClose == Init /\ [][NextClose]_vars

\* The turn of the loop of a that a sentinel sent to a full resync ends.
ResyncEnds(a) == pc[a] \in {"repopulate", "apply"} /\ pc'[a] = "watch"

\* The turn of the loop of a ends, merge or full resync.
TurnEnds(a) == pc[a] \in {"merge", "repopulate", "apply"} /\ pc'[a] = "watch"

\* The value was written by an instance other than a.
ByPeer(a, val) == \E b \in Inst \ {a} : val \in ValsOf(b)

(* ------------------------------- claims ------------------------------- *)

\* C1: the value returned by Clock() never decreases on an instance, in any
\* interleaving of Repopulate, the merge of BackgroundUpdate, Set and Delete.
C1_ClockNeverDecreases == [][\A i \in Inst : Clock(i)' >= Clock(i)]_vars

\* C2: in every reachable state the clock of an instance is at least the
\* version of every entry of its table.
C2_ClockBoundsVersions ==
    \A i \in Inst : \A k \in DOMAIN cache[i] : cache[i][k].Clock <= clock[i]

\* C3: the version of the entry of a key never decreases from one Get that
\* finds the key to the next.
C3_VersionNeverDecreases ==
    [][\A i \in Inst, key \in RelKeys :
          Found(i, key) /\ Found(i, key)' => Get(i, key)'.Clock >= Get(i, key).Clock]_vars

\* C4: when the put of Set(k, v) fails, Set returns the error and the table
\* is the one before the call.
C4_FailedSetLeavesTable ==
    [][\A i \in Inst, key \in RelKeys : \A val \in ValsOf(i) :
          Set(i, key, val) /\ fails' # fails => ret'[i] /\ cache'[i] = cache[i]]_vars

\* C5: Delete(k) returns an error when its remote delete or its put of the
\* sentinel failed, and when it returns an error the table is the one before
\* the call: a key that was in the table is still in it.
C5_DeleteFirstError ==
    [][\A i \in Inst :
          DeleteEnd(i) =>
              /\ (del[i].err \/ fails' # fails) => ret'[i]
              /\ ret'[i] /\ del[i].had => Found(i, del[i].key)']_vars

\* C6: right after Set(k, v) has returned nil on an instance, Get(k) finds k
\* with the value v, whatever the loop of the instance is doing.
C6_ReadYourWrite ==
    [][\A i \in Inst, key \in RelKeys : \A val \in ValsOf(i) :
          Set(i, key, val) /\ ~ret'[i] =>
              Found(i, key)' /\ Get(i, key)'.Value = val]_vars

\* A Set of A has returned nil while the loop of A holds a response it has
\* not merged yet: the entry is stamped with the clock and lags the store.
C6_Witness ==
    \E key \in RelKeys :
        /\ pc["A"] = "merge"
        /\ ~ret["A"]
        /\ Found("A", key)
        /\ Get("A", key).Key = key
        /\ Get("A", key).Value = store[prefix \o key].Value
        /\ Get("A", key).Clock < store[prefix \o key].ModifyIndex


\* C7: once the loop of an instance has processed the watch response that
\* carries the sentinel of a Delete(k) that returned on another instance, and k
\* has not been set again, Get(k) reports k absent.
C7_DeleteReachesPeers ==
    [][\A a \in Watchers, key \in RelKeys :
          /\ ResyncEnds(a)
          /\ gone'[key] \notin {"none", a}
          /\ resp[a].values[prefix \o SyncName] = store'[prefix \o SyncName]
          => ~Found(a, key)']_vars

\* C8: once the loop of an instance has processed the watch response that
\* carries the pair (k, v) another instance has Set, and the pair is still the
\* one of the store, Get(k) finds k with the value v.
C8_SetReachesPeers ==
    [][\A a \in Watchers, key \in RelKeys :
          /\ TurnEnds(a)
          /\ (prefix \o key) \in DOMAIN resp[a].values
          /\ resp[a].values[prefix \o key] = store'[prefix \o key]
          /\ ByPeer(a, store'[prefix \o key].Value)
          => Found(a, key)' /\ Get(a, key)'.Value = store'[prefix \o key].Value]_vars


\* The step is one of the two remote calls of a Delete of instance i.
InDelete(i) == cpc'[i] # cpc[i] /\ (cpc[i] = "delete" \/ cpc'[i] = "delete")

Mirrors(tbl, values) ==
    /\ DOMAIN tbl = DOMAIN values
    /\ \A k \in DOMAIN values : tbl[k].Value = values[k].Value

\* C10: when Repopulate returns nil on a listing of N keys, N >= 0, Size() is
\* N, the table holds every key of the listing with its value, and no other
\* entry is left; stated for the runs in which no remote call has failed.
C10_RepopulateMirrorsListing ==
    [][\A a \in Watchers, t \in Threads :
          RepopulateApply(a, t) /\ fails = 0
          => /\ Mirrors(cache'[a], lst[a][t].values)
             /\ Size(a)' = Cardinality(DOMAIN lst[a][t].values)]_vars

\* C11: when the List of a Repopulate fails, the table and the clock of the
\* instance are left as they were, and a caller gets the error at once.
C11_FailedRepopulateLeavesMirror ==
    [][\A a \in Watchers, t \in Threads :
          RepopulateList(a, t) /\ fails' # fails
          => /\ cache'[a] = cache[a] /\ clock'[a] = clock[a]
             /\ At(a, t)' # "apply"
             /\ t = "caller" => ret'[a] /\ cpc'[a] = "idle"]_vars

\* A caller's Repopulate of A has failed on a stale mirror.  The table of A is
\* as an earlier Repopulate stored it (every entry under the key of the
\* listing), the store has since taken a second write, no Delete has been
\* made, the one failure has happened and A's last call returned the error.
C11_Witness ==
    /\ cpc["A"] = "idle" /\ ret["A"] /\ fails = 1
    /\ lst["A"]["caller"] = NoResp
    /\ ridx = 2
    /\ store[prefix \o SyncName] = NoEntry
    /\ \A k \in DOMAIN cache["A"] : cache["A"][k].Key = k
    /\ \E key \in RelKeys :
          /\ Found("A", key)
          /\ Get("A", key).Clock = 1
          /\ store[prefix \o key].ModifyIndex = 2
          /\ Get("A", key).Value # store[prefix \o key].Value

\* C12: a watch response with a key whose base name is __sync sends the loop
\* to Repopulate with the table untouched, the merge is never run on such a
\* response, and the turn ends with the table replaced by a listing.
C12_SentinelResponseNotMerged ==
    [][\A a \in Watchers :
          /\ BgWatch(a) /\ fails' = fails /\ FullSync(WatchResp(opts[a]).values)
             => /\ pc'[a] = "repopulate"
                /\ resp'[a] = WatchResp(opts[a])
                /\ cache'[a] = cache[a] /\ clock'[a] = clock[a]
          /\ BgMerge(a) => ~FullSync(resp[a].values)
          /\ pc[a] = "repopulate" /\ pc'[a] # "repopulate"
             => cache'[a] = cache[a] /\ pc'[a] \in {"apply", "watch"}
          /\ pc[a] = "apply" /\ pc'[a] # "apply"
             => Mirrors(cache'[a], lst[a]["bg"].values) /\ pc'[a] = "watch"]_vars

\* The loop of A is on its way to Repopulate with a response that carries the
\* sentinel and the pair of a key that A does not hold as the response has it.
C12_Witness ==
    /\ pc["A"] = "repopulate"
    /\ (prefix \o SyncName) \in DOMAIN resp["A"].values
    /\ \E key \in RelKeys :
          /\ (prefix \o key) \in DOMAIN resp["A"].values
          /\ ~Found("A", key)

\* C13: once Close has been called, the watch call in flight ends the loop
\* when it completes and nothing of its response is applied, the loop ends
\* at no other point, and it does not come back to the top of the loop, where
\* the next watch call is issued.
C13_CloseStopsLoop ==
    [][\A a \in Watchers :
          /\ exit[a] /\ BgWatch(a) => pc'[a] = "done"
          /\ pc'[a] = "done" /\ pc[a] # "done" => exit[a] /\ pc[a] = "watch"
          /\ exit[a] /\ pc[a] # "watch" => pc'[a] # "watch"]_vars

\* The keys of the table of i that start with the prefix of i followed by p.
Matching(i, p) == {k \in DOMAIN cache[i] : HasPrefix(k, prefix \o p)}

\* The greatest version among the entries of i under the keys ks, 0 for none.
MaxVersion(i, ks) ==
    IF ks = {} THEN 0
    ELSE LET k == CHOOSE x \in ks : \A y \in ks : cache[i][y].Clock <= cache[i][x].Clock
         IN  cache[i][k].Clock

\* C14: in every state of a mirror and for every prefix p, GetPrefix(p)
\* returns the entries stored under the keys that start with the instance's
\* prefix followed by p, each once and no other, and the greatest version
\* among them, 0 when there is none.
C14_GetPrefixExact ==
    \A i \in Inst, p \in Prefixes :
        LET r == GetPrefix(i, p)
            ks == Matching(i, p)
        IN  /\ Len(r.values) = Cardinality(ks)
            /\ \A k \in ks : \E n \in 1..Len(r.values) : r.values[n] = cache[i][k]
            /\ \A n \in 1..Len(r.values) : \E k \in ks : r.values[n] = cache[i][k]
            /\ r.max = MaxVersion(i, ks)

\* GetPrefix("c") on A returns one entry of a table of two or more, the
\* entry left out has the greater version, and GetPrefix("") returns both.
C14_Witness ==
    LET r == GetPrefix("A", <<"c">>)
    IN  /\ Len(r.values) = 1
        /\ r.max >= 1
        /\ Found("A", <<"bar">>)
        /\ Get("A", <<"bar">>).Clock > r.max
        /\ Len(GetPrefix("A", <<>>).values) >= 2
        /\ GetPrefix("A", <<>>).max = Get("A", <<"bar">>).Clock
        /\ GetPrefix("A", <<"baz">>).values = <<>>

\* C15: the Key field of every entry of a table is the key relative to the
\* prefix of the instance: the key it is stored under with the prefix cut off.
C15_KeyFieldRelative ==
    \A i \in Inst : \A k \in DOMAIN cache[i] : cache[i][k].Key = Cut(k, plen)

\* C16: a Delete of key takes the lock, removes the entry and issues the
\* remote delete before it puts the sentinel, and releases the lock after the
\* put; when the sentinel has been put, a listing no longer holds the pair
\* that the deleting instance had written under key.
C16_SentinelAfterDelete ==
    [][\A i \in Inst :
          /\ \A key \in RelKeys :
                DeleteBegin(i, key)
                => /\ lock[i] = "free" /\ lock'[i] = "held"
                   /\ ~Found(i, key)'
                   /\ store'[prefix \o SyncName] = store[prefix \o SyncName]
          /\ DeleteEnd(i)
             => /\ lock[i] = "held" /\ lock'[i] = "free"
                /\ fails' = fails
                   => LET e == ListResp'.values
                          xkey == prefix \o del[i].key
                      IN  /\ (prefix \o SyncName) \in DOMAIN e
                          /\ xkey \in DOMAIN e => e[xkey].Value \notin ValsOf(i)]_vars

\* C17: the merge of the loop keeps every key of the table, and a key leaves
\* the table of an instance only when a Repopulate of that instance applies a
\* listing without it or when a Delete of that instance removes it.
C17_MergeOnlyUpserts ==
    [][\A i \in Inst :
          /\ BgMerge(i) => DOMAIN cache[i] \subseteq DOMAIN cache'[i]
          /\ \A k \in DOMAIN cache[i] \ DOMAIN cache'[i] :
                \/ \E t \in Threads :
                      RepopulateApply(i, t) /\ k \notin DOMAIN lst[i][t].values
                \/ \E key \in RelKeys : DeleteBegin(i, key) /\ k = prefix \o key]_vars

\* The loop of A is about to merge a response that lacks a key of its table.
C17_Witness ==
    /\ pc["A"] = "merge" /\ lock["A"] = "free"
    /\ resp["A"].values # NoPairs
    /\ \E key \in RelKeys :
          /\ Found("A", key)
          /\ (prefix \o key) \notin DOMAIN resp["A"].values
          /\ store[prefix \o key] = NoEntry

\* C18: when a watch call of the loop returns no pair and no error, the table
\* and the clock are left as they were, the index of the response becomes the
\* index of the next watch call, and the loop goes back to watch.
C18_EmptyResponseAdoptsIndex ==
    [][\A a \in Watchers :
          BgWatch(a) /\ fails' = fails /\ WatchResp(opts[a]).values = NoPairs
          => /\ cache'[a] = cache[a] /\ clock'[a] = clock[a]
             /\ opts'[a] = WatchResp(opts[a]).LastIndex
             /\ pc'[a] = "watch"]_vars

\* A watch call of A is outstanding whose response has no pair although the
\* index of the store is past the index of the call: the last change was a
\* delete.  A holds entries, and its clock is behind.
C18_Witness ==
    /\ pc["A"] = "watch"
    /\ WatchResp(opts["A"]).values = NoPairs
    /\ WatchResp(opts["A"]).LastIndex > opts["A"]
    /\ opts["A"] >= 1
    /\ cache["A"] # NoPairs
    /\ clock["A"] < ridx

\* C19: when a watch call of the loop of an instance that is not closed
\* fails, the loop goes to its backoff sleep with the table, the clock and
\* the watch index as they were; the sleep ends at the top of the loop with
\* the same index; and the loop ends only when the instance has been closed.
C19_FailedWatchBacksOff ==
    [][\A a \in Watchers :
          /\ ~exit[a] /\ BgWatch(a) /\ fails' # fails
             => /\ pc'[a] = "sleep"
                /\ opts'[a] = opts[a]
                /\ cache'[a] = cache[a] /\ clock'[a] = clock[a]
          /\ BgSleep(a)
             => /\ pc'[a] = "watch"
                /\ opts'[a] = opts[a]
                /\ cache'[a] = cache[a] /\ clock'[a] = clock[a]
          /\ pc'[a] = "done" => exit[a]]_vars

\* The loop of A, not closed, sleeps after a failed watch call: it has merged
\* before, and the store holds changes past its watch index.
C19_Witness ==
    /\ pc["A"] = "sleep" /\ ~exit["A"] /\ fails = 1
    /\ opts["A"] >= 1
    /\ cache["A"] # NoPairs
    /\ Pairs(opts["A"]) # NoPairs

\* C20: no key of the table of a mirror has the base name __sync, so that
\* GetPrefix never returns the sentinel and Size() never counts it.
C20_SentinelNeverStored ==
    \A i \in Inst :
        /\ \A k \in DOMAIN cache[i] : Base(k) # SyncName
        /\ GetPrefix(i, SyncName).values = <<>>
        /\ Size(i) = Cardinality({k \in DOMAIN cache[i] : Base(k) # SyncName})

\* The step is a merge of the loop of a or the table replacement of a
\* Repopulate of a.
Applies(a) == BgMerge(a) \/ \E t \in Threads : RepopulateApply(a, t)

\* C21: while the store holds, as the latest value of key, the value that a
\* Set of instance a has put there and a holds it too, no merge and no
\* Repopulate of a makes Get(key) return another value or report key absent;
\* stated for the runs in which no remote call has failed.
C21_SetNotUndone ==
    [][\A a \in Watchers, key \in RelKeys :
          /\ Applies(a) /\ fails = 0
          /\ store[prefix \o key].Value \in ValsOf(a)
          /\ Found(a, key) /\ Get(a, key).Value = store[prefix \o key].Value
          => Found(a, key)' /\ Get(a, key)'.Value = store[prefix \o key].Value]_vars

\* C22: once a Delete of key on instance a has returned nil, while no Set of
\* key has begun since and the store has no pair for key, no merge and no
\* Repopulate of a puts key back into the table of a; stated for the runs in
\* which no remote call has failed.
C22_DeleteNotUndone ==
    [][\A a \in Watchers, key \in RelKeys :
          /\ Applies(a) /\ fails = 0
          /\ gone[key] = a
          /\ store[prefix \o key] = NoEntry
          /\ ~Found(a, key)
          => ~Found(a, key)']_vars

\* C23: when the loop of a has received a sentinel, it comes back to the top
\* of the loop, to watch from an index at or past the version of the sentinel,
\* only by the step of Repopulate that replaces the table from a listing that
\* has pairs.
C23_SentinelNeverLost ==
    [][\A a \in Watchers :
          /\ ResyncEnds(a)
          /\ opts'[a] >= resp[a].values[prefix \o SyncName].ModifyIndex
          => /\ RepopulateApply(a, "bg")
             /\ lst[a]["bg"].values # NoPairs
             /\ Mirrors(cache'[a], lst[a]["bg"].values)]_vars

\* The table of a holds the keys the store has under the prefix and no other,
\* each with the value of the store.
InSync(a) == Mirrors(cache[a], Pairs(0))

\* No call of a caller is in flight on any instance, and the loop of a waits
\* in a watch call from the index of the store: until the next write or the
\* next call of a caller, no step changes the table of a.
Quiescent(a) ==
    /\ \A i \in Inst : cpc[i] = "idle"
    /\ pc[a] = "watch"
    /\ opts[a] = ridx
    /\ ~exit[a]

\* C24: when no remote call has failed, the writes have stopped and the
\* callers make no further call, an instance that runs the loop holds the
\* keys and values of the store: a state in which the loop waits at the index
\* of the store with nothing in flight, from which the loop alone changes
\* nothing, is a state in which the table equals the content of the store.
C24_Convergence ==
    \A a \in Watchers : fails = 0 /\ Quiescent(a) => InSync(a)

=============================================================================
